---------------------------- MODULE Spec2Model ----------------------------
(***************************************************************************)
(* A model of lib/open_library_api.py: the BookSearch client of the Open   *)
(* Library search endpoint.                                                *)
(*                                                                         *)
(* A Python str is modelled as a sequence of one-character strings, so     *)
(* that strip, replace, join, slicing and formatting are computed          *)
(* character by character.  A JSON value is a pair <<tag, payload>> whose   *)
(* tag names its type.  An optional argument is a record [given, v].       *)
(*                                                                         *)
(* Three specifications are defined over the same variables:               *)
(*   SpecUrl     a direct call of _build_url on bounded arguments          *)
(*   SpecFormat  a direct call of format_search_results                    *)
(*   Spec        the loop of interactive_search                            *)
(***************************************************************************)
EXTENDS Integers, Sequences, FiniteSets, TLC

VARIABLES
    pc,             \* position of the running method
    default_fields, \* self.default_fields
    default_limit,  \* self.default_limit
    search_term,    \* search_term (argument, or local of interactive_search)
    search_type,    \* search_type (argument, or local of interactive_search)
    fields,         \* fields argument of _build_url / search_books
    limit,          \* limit (argument, or local of interactive_search)
    url,            \* the URL last built by _build_url
    response,       \* the value search_books returned / api_response
    formatted,      \* the value format_search_results returned
    stdout,         \* lines printed since the search-term prompt was last shown
    last_input,     \* the line input() returned last, as typed
    outcome,        \* what the remote endpoint did with the last GET
    requests,       \* number of GET requests issued so far
    iter,           \* number of non-quit iterations started so far
    exc             \* the exception that left interactive_search, if any

vars == <<pc, default_fields, default_limit, search_term, search_type, fields,
          limit, url, response, formatted, stdout, last_input, outcome,
          requests, iter, exc>>

---------------------------------------------------------------------------
(* Bounds of the model.                                                    *)

MaxTermLen == 3
MaxFields == 2
MaxDocs == 2
MaxLimitLen == 2
MaxIter == 2

---------------------------------------------------------------------------
(* Python str and list operations.                                         *)

Whitespace == {" ", "\t", "\n", "\r"}

RECURSIVE LStrip(_)
LStrip(s) == IF Len(s) > 0 /\ Head(s) \in Whitespace THEN LStrip(Tail(s)) ELSE s

RECURSIVE RStrip(_)
RStrip(s) ==
    IF Len(s) > 0 /\ s[Len(s)] \in Whitespace
    THEN RStrip(SubSeq(s, 1, Len(s) - 1))
    ELSE s

\* str.strip()
Strip(s) == RStrip(LStrip(s))

RECURSIVE Replace(_, _, _)
\* str.replace(old, new) for a one-character old
Replace(s, old, new) ==
    IF Len(s) = 0 THEN <<>>
    ELSE (IF Head(s) = old THEN new ELSE <<Head(s)>>) \o Replace(Tail(s), old, new)

UpperCase == <<"A","B","C","D","E","F","G","H","I","J","K","L","M","N","O","P","Q","R","S","T","U","V","W","X","Y","Z">>
LowerCase == <<"a","b","c","d","e","f","g","h","i","j","k","l","m","n","o","p","q","r","s","t","u","v","w","x","y","z">>

LowerChar(c) ==
    IF \E i \in 1..Len(UpperCase) : UpperCase[i] = c
    THEN LowerCase[CHOOSE i \in 1..Len(UpperCase) : UpperCase[i] = c]
    ELSE c

RECURSIVE Lower(_)
\* str.lower()
Lower(s) == IF Len(s) = 0 THEN <<>> ELSE <<LowerChar(Head(s))>> \o Lower(Tail(s))

RECURSIVE Join(_, _)
\* sep.join(xs) for a list xs of str
Join(xs, sep) ==
    IF Len(xs) = 0 THEN <<>>
    ELSE IF Len(xs) = 1 THEN xs[1]
    ELSE xs[1] \o sep \o Join(Tail(xs), sep)

\* s[:n]
Slice(s, n) == SubSeq(s, 1, IF Len(s) < n THEN Len(s) ELSE n)

Digits == <<"0","1","2","3","4","5","6","7","8","9">>

RECURSIVE NatToStr(_)
NatToStr(n) ==
    IF n < 10 THEN <<Digits[n + 1]>>
    ELSE NatToStr(n \div 10) \o <<Digits[(n % 10) + 1]>>

\* str(n) of an int, as an f-string formats it
IntToStr(n) == IF n < 0 THEN <<"-">> \o NatToStr(-n) ELSE NatToStr(n)

\* An optional argument: None, or a value
Some(x) == [given |-> TRUE, v |-> x]
NoFields == [given |-> FALSE, v |-> <<>>]
NoLimit == [given |-> FALSE, v |-> 0]

---------------------------------------------------------------------------
(* BookSearch: class constant, constructor, URL builder.                   *)

BASE_URL == <<"h","t","t","p","s",":","/","/","o","p","e","n","l","i","b","r","a","r","y",".","o","r","g","/","s","e","a","r","c","h",".","j","s","o","n">>

InitDefaultFields ==
    << <<"t","i","t","l","e">>, <<"a","u","t","h","o","r","_","n","a","m","e">>, <<"f","i","r","s","t","_","p","u","b","l","i","s","h","_","y","e","a","r">>, <<"p","u","b","l","i","s","h","e","r">>, <<"i","s","b","n">> >>

InitDefaultLimit == 3

\* _format_search_term with the replace left out
StripOnlyMutant(term) == Strip(term)

\* _format_search_term
_format_search_term(term) == Replace(Strip(term), " ", <<"+">>)

\* fields = fields or self.default_fields: None and the empty list are falsy
FieldsOrDefault(arg, dflt) ==
    IF arg.given /\ Len(arg.v) > 0 THEN arg.v ELSE dflt

\* limit = limit or self.default_limit: None and 0 are falsy
LimitOrDefault(arg, dflt) ==
    IF arg.given /\ arg.v # 0 THEN arg.v ELSE dflt

\* _build_url
_build_url(term, type, fieldsArg, limitArg, dfltFields, dfltLimit) ==
    LET fs == FieldsOrDefault(fieldsArg, dfltFields)
        lim == LimitOrDefault(limitArg, dfltLimit)
        formatted_term == _format_search_term(term)
        fields_str == Join(fs, <<",">>)
    IN  BASE_URL \o <<"?">> \o type \o <<"=">> \o formatted_term
            \o <<"&","f","i","e","l","d","s","=">> \o fields_str \o <<"&","l","i","m","i","t","=">> \o IntToStr(lim)

---------------------------------------------------------------------------
(* Values of the variables a specification does not use.                   *)

\* Python None: what search_books returns on failure, and JSON null
None == <<"none", <<>>>>
NoOutcome == [kind |-> "none", code |-> 0, body |-> None]
NoFormatted == [ok |-> TRUE, s |-> <<>>, exc |-> "none"]

ObjectInit ==
    /\ default_fields = InitDefaultFields
    /\ default_limit = InitDefaultLimit

---------------------------------------------------------------------------
(* SpecUrl: one direct call of _build_url.                                 *)

TermAlphabet == {" ", "\t", "a"}

SeqsUpTo(A, n) == UNION {[1..k -> A] : k \in 0..n}

UrlTerms == SeqsUpTo(TermAlphabet, MaxTermLen) \cup {<<"t","h","e"," ","h","o","b","b","i","t">>, <<" "," ","T","h","e"," ","L","o","r","d"," ","o","f"," ","t","h","e"," ","R","i","n","g","s","\t">>}

SearchTypes == {<<"t","i","t","l","e">>, <<"a","u","t","h","o","r">>}

FieldNames == {<<"t","i","t","l","e">>, <<"i","s","b","n">>}

FieldsArgs == {NoFields} \cup {Some(f) : f \in SeqsUpTo(FieldNames, MaxFields)}

LimitArgs == {NoLimit} \cup {Some(n) : n \in {-1, 0, 1, 3, 10}}

InitUrl ==
    /\ ObjectInit
    /\ pc = "call"
    /\ search_term \in UrlTerms
    /\ search_type \in SearchTypes
    /\ fields \in FieldsArgs
    /\ limit \in LimitArgs
    /\ url = <<>>
    /\ response = None
    /\ formatted = NoFormatted
    /\ stdout = <<>>
    /\ last_input = <<>>
    /\ outcome = NoOutcome
    /\ requests = 0
    /\ iter = 0
    /\ exc = "none"

CallBuildUrl ==
    /\ pc = "call"
    /\ url' = _build_url(search_term, search_type, fields, limit,
                         default_fields, default_limit)
    /\ pc' = "returned"
    /\ UNCHANGED <<default_fields, default_limit, search_term, search_type,
                   fields, limit, response, formatted, stdout, last_input,
                   outcome, requests, iter, exc>>

NextUrl == CallBuildUrl

SpecUrl == InitUrl /\ [][NextUrl]_vars

---------------------------------------------------------------------------
(* Reading a URL back: the text between two markers.                       *)

\* The least index at which pat occurs in s, or 0
Find(s, pat) ==
    LET hits == {i \in 1..(Len(s) - Len(pat) + 1) : SubSeq(s, i, i + Len(pat) - 1) = pat}
    IN  IF hits = {} THEN 0 ELSE CHOOSE i \in hits : \A j \in hits : i <= j

IsPrefix(p, s) == Len(p) <= Len(s) /\ SubSeq(s, 1, Len(p)) = p

\* The value of the fields= query parameter of u
FieldsParam(u) ==
    LET a == Find(u, <<"&","f","i","e","l","d","s","=">>)
        b == Find(u, <<"&","l","i","m","i","t","=">>)
    IN  SubSeq(u, a + 8, b - 1)

\* The value of the limit= query parameter of u
LimitParam(u) == SubSeq(u, Find(u, <<"&","l","i","m","i","t","=">>) + 7, Len(u))

IsDecimal(s) ==
    LET body == IF Len(s) > 0 /\ Head(s) = "-" THEN Tail(s) ELSE s
    IN  Len(body) > 0 /\ \A i \in 1..Len(body) : \E d \in 1..10 : Digits[d] = body[i]

NonWs(s) == {i \in 1..Len(s) : s[i] \notin Whitespace}

\* The term between its first and last non-whitespace character, each space
\* of it turned into a plus sign
TrimmedPlus(s) ==
    IF NonWs(s) = {} THEN <<>>
    ELSE LET lo == CHOOSE i \in NonWs(s) : \A j \in NonWs(s) : i <= j
             hi == CHOOSE i \in NonWs(s) : \A j \in NonWs(s) : j <= i
         IN  [k \in 1..(hi - lo + 1) |->
                IF s[lo + k - 1] = " " THEN "+" ELSE s[lo + k - 1]]

HobbitUrl ==
    <<"h","t","t","p","s",":","/","/","o","p","e","n","l","i","b","r","a","r","y",".","o","r","g","/","s","e","a","r","c","h",".","j","s","o","n","?","t","i","t","l","e","=","t","h","e","+","h","o","b","b","i","t","&","f","i","e","l","d","s","=","t","i","t","l","e",",","a","u","t","h","o","r","_","n","a","m","e",",","f","i","r","s","t","_","p","u","b","l","i","s","h","_","y","e","a","r",",","p","u","b","l","i","s","h","e","r",",","i","s","b","n","&","l","i","m","i","t","=","3">>

\* C1: the URL _build_url returns holds no space character; it is
\* <base>?<search_type>=<term trimmed, spaces as +>&fields=<list>&limit=<int>;
\* and "the hobbit", title, default fields, limit 3 give the documented URL.
C1_BuildUrlShape ==
    pc = "returned" =>
        /\ \A i \in 1..Len(url) : url[i] # " "
        /\ IsPrefix(BASE_URL \o <<"?">> \o search_type \o <<"=">>
                        \o TrimmedPlus(search_term) \o <<"&","f","i","e","l","d","s","=">>, url)
        /\ Find(url, <<"&","l","i","m","i","t","=">>) > Find(url, <<"&","f","i","e","l","d","s","=">>)
        /\ \A i \in 1..Len(FieldsParam(url)) : FieldsParam(url)[i] # "&"
        /\ IsDecimal(LimitParam(url))
        /\ (search_term = <<"t","h","e"," ","h","o","b","b","i","t">> /\ search_type = <<"t","i","t","l","e">>
                /\ fields = NoFields /\ limit = Some(3)
            => url = HobbitUrl)

C1_Witness ==
    /\ pc = "returned"
    /\ search_term = <<" "," ","T","h","e"," ","L","o","r","d"," ","o","f"," ","t","h","e"," ","R","i","n","g","s","\t">>
    /\ search_type = <<"a","u","t","h","o","r">>
    /\ url = <<"h","t","t","p","s",":","/","/","o","p","e","n","l","i","b","r","a","r","y",".","o","r","g","/","s","e","a","r","c","h",".","j","s","o","n","?","a","u","t","h","o","r","=","T","h","e","+","L","o","r","d","+","o","f","+","t","h","e","+","R","i","n","g","s","&","f","i","e","l","d","s","=","t","i","t","l","e",",","a","u","t","h","o","r","_","n","a","m","e",",","f","i","r","s","t","_","p","u","b","l","i","s","h","_","y","e","a","r",",","p","u","b","l","i","s","h","e","r",",","i","s","b","n","&","l","i","m","i","t","=","3">>

\* C2: for every fields argument given, the empty list included, the fields=
\* parameter is the comma-joined argument; the defaults appear only when no
\* fields argument is given.
C2_FieldsParamIsArgument ==
    pc = "returned" =>
        FieldsParam(url) =
            Join(IF fields.given THEN fields.v ELSE InitDefaultFields, <<",">>)

\* C3: for every integer limit given, 0 and negatives included, the limit=
\* parameter is that limit; 3 appears only when no limit is given.
C3_LimitParamIsArgument ==
    pc = "returned" =>
        LimitParam(url) = IntToStr(IF limit.given THEN limit.v ELSE 3)

---------------------------------------------------------------------------
(* JSON values as response.json() returns them: None, str, int, list,      *)
(* dict.  Two dicts are modelled: the response mapping, with its docs key  *)
(* (or without) and a count of its other keys, and a book record, with     *)
(* each of the five keys the formatter reads present or absent.            *)

\* A JSON value is <<tag, payload>>
Tag(x) == x[1]
Val(x) == x[2]

Absent == <<"absent", <<>>>>
JStr(s) == <<"str", s>>
JNum(n) == <<"num", n>>
JList(xs) == <<"list", xs>>
JObj(docs, others) == <<"obj", [docs |-> docs, others |-> others]>>
JBook(title, author_name, first_publish_year, publisher, isbn) ==
    <<"book",
      [title |-> title, author_name |-> author_name,
       first_publish_year |-> first_publish_year,
       publisher |-> publisher, isbn |-> isbn]>>

\* bool(x): None, "", 0, [] and {} are falsy
Truthy(x) ==
    CASE Tag(x) \in {"none", "absent"} -> FALSE
      [] Tag(x) \in {"str", "list"} -> Len(Val(x)) > 0
      [] Tag(x) = "num" -> Val(x) # 0
      [] Tag(x) = "obj" -> Tag(Val(x).docs) # "absent" \/ Val(x).others > 0
      [] Tag(x) = "book" -> \E k \in DOMAIN Val(x) : Tag(Val(x)[k]) # "absent"

\* dict.get(key, default), on the value stored under the key
Get(x, dflt) == IF Tag(x) = "absent" THEN dflt ELSE x

RECURSIVE PyRepr(_)
\* repr(x): what an f-string shows of an element of a list
PyRepr(x) ==
    CASE Tag(x) = "str" -> <<"'">> \o Val(x) \o <<"'">>
      [] Tag(x) = "num" -> IntToStr(Val(x))
      [] Tag(x) = "none" -> <<"N","o","n","e">>
      [] Tag(x) = "list" ->
            <<"[">> \o Join([i \in 1..Len(Val(x)) |-> PyRepr(Val(x)[i])], <<","," ">>) \o <<"]">>

\* str(x): what an f-string shows of x
PyStr(x) == IF Tag(x) = "str" THEN Val(x) ELSE PyRepr(x)

\* The result of an expression: a str, or the exception it raised
Ok(s) == [ok |-> TRUE, s |-> s, exc |-> "none"]
Raise(e) == [ok |-> FALSE, s |-> <<>>, exc |-> e]

\* ', '.join(x): x must be an iterable of str; a str iterates its characters
CommaJoin(x) ==
    CASE Tag(x) = "list" ->
            IF \A i \in 1..Len(Val(x)) : Tag(Val(x)[i]) = "str"
            THEN Ok(Join([i \in 1..Len(Val(x)) |-> Val(Val(x)[i])], <<","," ">>))
            ELSE Raise("TypeError")
      [] Tag(x) = "str" -> Ok(Join([i \in 1..Len(Val(x)) |-> <<Val(x)[i]>>], <<","," ">>))
      [] Tag(x) \in {"none", "num"} -> Raise("TypeError")

NO_RESULTS == <<"N","o"," ","r","e","s","u","l","t","s"," ","f","o","u","n","d",".">>
Unknown == JStr(<<"U","n","k","n","o","w","n">>)

\* the guard with its docs test left out
OnlyNoneGuardMutant(api_response) == ~Truthy(api_response)

\* if not api_response or not api_response.get("docs")
NoResultsGuard(api_response) ==
    \/ ~Truthy(api_response)
    \/ (Tag(api_response) = "obj" /\ ~Truthy(Get(Val(api_response).docs, None)))

\* an empty default in place of ['Unknown']
IsbnDefaultEmptyMutant == JList(<< >>)

\* the default of book.get('isbn', ['Unknown'])
IsbnDefault == JList(<<Unknown>>)

IsbnSliceLen == 3

\* the five f-strings of one book, in order; the first to raise ends it
FormatBook(book) ==
    IF Tag(book) # "book" THEN Raise("AttributeError")
    ELSE
    LET title == PyStr(Get(Val(book).title, Unknown))
        authors == CommaJoin(Get(Val(book).author_name, JList(<<Unknown>>)))
        year == PyStr(Get(Val(book).first_publish_year, Unknown))
        publisher == CommaJoin(Get(Val(book).publisher, JList(<<Unknown>>)))
        isbn == CommaJoin(Get(Val(book).isbn, IsbnDefault))
    IN  IF ~authors.ok THEN authors
        ELSE IF ~publisher.ok THEN publisher
        ELSE IF ~isbn.ok THEN isbn
        ELSE Ok(Join(<< <<"T","i","t","l","e",":"," ">> \o title,
                        <<"A","u","t","h","o","r","(","s",")",":"," ">> \o authors.s,
                        <<"F","i","r","s","t"," ","P","u","b","l","i","s","h","e","d",":"," ">> \o year,
                        <<"P","u","b","l","i","s","h","e","r",":"," ">> \o publisher.s,
                        <<"I","S","B","N",":"," ">> \o Slice(isbn.s, IsbnSliceLen) \o <<".",".",".">> >>,
                     <<"\n">>))

\* "\n".join in place of "\n\n".join
SingleNewlineMutant == <<"\n">>

\* the separator of "\n\n".join(formatted_results)
BlockSeparator == <<"\n","\n">>

RECURSIVE FormatDocs(_, _)
\* for book in api_response["docs"]: ... ; return "\n\n".join(formatted_results)
FormatDocs(books, formatted_results) ==
    IF Len(books) = 0 THEN Ok(Join(formatted_results, BlockSeparator))
    ELSE LET result == FormatBook(Head(books))
         IN  IF ~result.ok THEN result
             ELSE FormatDocs(Tail(books), Append(formatted_results, result.s))

\* format_search_results
format_search_results(api_response) ==
    IF ~Truthy(api_response) THEN Ok(NO_RESULTS)
    ELSE IF Tag(api_response) # "obj" THEN Raise("AttributeError")
    ELSE IF NoResultsGuard(api_response) THEN Ok(NO_RESULTS)
    ELSE LET docs == Val(api_response).docs
         IN  CASE Tag(docs) = "list" -> FormatDocs(Val(docs), << >>)
               [] Tag(docs) = "str" -> Raise("AttributeError")
               [] Tag(docs) = "num" -> Raise("TypeError")
               [] Tag(docs) = "absent" -> Raise("KeyError")

---------------------------------------------------------------------------
(* SpecFormat: one direct call of format_search_results on a response      *)
(* whose docs, when present, is a sequence of book records of the data     *)
(* model: every field a value of its documented type, or absent.           *)

Authors1 == JList(<< JStr(<<"J",".","R",".","R","."," ","T","o","l","k","i","e","n">>) >>)
Authors2 == JList(<< JStr(<<"A","n","n">>), JStr(<<"B","o">>) >>)
Pubs1 == JList(<< JStr(<<"A","l","l","e","n">>) >>)
Pubs2 == JList(<< JStr(<<"A","c","e">>), JStr(<<"T","o","r">>) >>)

BookRecords ==
    { JBook(Absent, Absent, Absent, Absent, Absent),
      JBook(JStr(<<"D","u","n","e">>), Absent, Absent, Absent, Absent),
      JBook(JStr(<<"E","m","m","a">>), Absent, JNum(1815), Absent, Absent),
      JBook(JStr(<<"T","h","e"," ","H","o","b","b","i","t">>), Authors1, JNum(1937), Pubs1,
            JList(<< JStr(<<"9","7","8","0","2","6","1","1","0","2","2","1","7">>), JStr(<<"0","2","6","1","1","0","2","2","1","4">>) >>)),
      JBook(JStr(<<"U","b","i","k">>), Authors2, JNum(1969), Pubs2, JList(<< JStr(<<"1","2">>) >>)),
      JBook(JStr(<<"S","o","l","a","r","i","s">>), Authors2, Absent, Absent, JList(<< >>)),
      JBook(Absent, JList(<< >>), JNum(0), JList(<< >>), JList(<< JStr(<<"9">>), JStr(<<"8">>) >>)),
      JBook(JStr(<<>>), Authors1, Absent, Pubs2, Absent),
      JBook(JStr(<<"K","i","m">>), Absent, JNum(1901), Pubs1, JList(<< JStr(<<"1","2","3">>) >>)),
      JBook(JStr(<<"N","o"," ","r","e","s","u","l","t","s"," ","f","o","u","n","d",".">>), Absent, Absent, Absent, Absent) }

FormatInputs ==
    {None, JObj(Absent, 0), JObj(Absent, 1), JObj(Absent, 2),
     JObj(JList(<< >>), 0), JObj(JList(<< >>), 2)}
    \cup {JObj(JList(ds), n) :
            ds \in (SeqsUpTo(BookRecords, MaxDocs) \ {<< >>}), n \in {0, 2}}

InitFormat ==
    /\ ObjectInit
    /\ pc = "call"
    /\ response \in FormatInputs
    /\ formatted = NoFormatted
    /\ search_term = <<>>
    /\ search_type = <<>>
    /\ fields = NoFields
    /\ limit = NoLimit
    /\ url = <<>>
    /\ stdout = <<>>
    /\ last_input = <<>>
    /\ outcome = NoOutcome
    /\ requests = 0
    /\ iter = 0
    /\ exc = "none"

CallFormat ==
    /\ pc = "call"
    /\ formatted' = format_search_results(response)
    /\ pc' = "returned"
    /\ UNCHANGED <<default_fields, default_limit, search_term, search_type,
                   fields, limit, url, response, stdout, last_input, outcome,
                   requests, iter, exc>>

NextFormat == CallFormat

SpecFormat == InitFormat /\ [][NextFormat]_vars

---------------------------------------------------------------------------
(* Reading formatted text back.                                            *)

RECURSIVE Split(_, _)
\* The pieces of s between the occurrences of sep, found left to right
Split(s, sep) ==
    LET i == Find(s, sep)
    IN  IF i = 0 THEN <<s>>
        ELSE <<SubSeq(s, 1, i - 1)>> \o Split(SubSeq(s, i + Len(sep), Len(s)), sep)

\* The response has docs, a non-empty sequence
HasDocs(r) == Tag(r) = "obj" /\ Tag(Val(r).docs) = "list" /\ Len(Val(Val(r).docs)) > 0

Lacks(book, key) == Tag(Val(book)[key]) = "absent"

\* C4: format_search_results returns exactly "No results found." for None,
\* for a mapping without docs and for a mapping with empty docs, and never
\* returns it for a mapping with a non-empty docs sequence of book records.
C4_NoResultsExactly ==
    pc = "returned" =>
        /\ formatted.ok
        /\ (formatted.s = NO_RESULTS) <=>
              \/ Tag(response) = "none"
              \/ (Tag(response) = "obj" /\ Tag(Val(response).docs) = "absent")
              \/ (Tag(response) = "obj" /\ Val(response).docs = JList(<< >>))

C4_Witness ==
    /\ pc = "returned"
    /\ response = JObj(JList(<< >>), 2)
    /\ formatted.s = <<"N","o"," ","r","e","s","u","l","t","s"," ","f","o","u","n","d",".">>

\* Of a single record that lacks author_name, publisher and isbn
OneBareRecord ==
    /\ pc = "returned"
    /\ HasDocs(response)
    /\ Len(Val(Val(response).docs)) = 1
    /\ Lacks(Val(Val(response).docs)[1], "author_name")
    /\ Lacks(Val(Val(response).docs)[1], "publisher")
    /\ Lacks(Val(Val(response).docs)[1], "isbn")

C9_BlocksInOrder ==
    (pc = "returned" /\ HasDocs(response)) =>
        LET docs == Val(Val(response).docs)
            blocks == Split(formatted.s, <<"\n","\n">>)
        IN  /\ formatted.ok
            /\ Len(blocks) = Len(docs)
            /\ \A i \in 1..Len(blocks) :
                LET lines == Split(blocks[i], <<"\n">>)
                    book == Val(docs[i])
                IN  /\ Len(lines) = 5
                    /\ lines[1] = <<"T","i","t","l","e",":"," ">> \o
                          (IF Tag(book.title) = "absent" THEN <<"U","n","k","n","o","w","n">> ELSE Val(book.title))
                    /\ IsPrefix(<<"A","u","t","h","o","r","(","s",")",":"," ">>, lines[2])
                    /\ (Tag(book.author_name) = "list" /\ Len(Val(book.author_name)) = 1
                            => lines[2] = <<"A","u","t","h","o","r","(","s",")",":"," ">> \o Val(Val(book.author_name)[1]))
                    /\ lines[3] = <<"F","i","r","s","t"," ","P","u","b","l","i","s","h","e","d",":"," ">> \o
                          (IF Tag(book.first_publish_year) = "absent" THEN <<"U","n","k","n","o","w","n">>
                           ELSE IntToStr(Val(book.first_publish_year)))
                    /\ IsPrefix(<<"P","u","b","l","i","s","h","e","r",":"," ">>, lines[4])
                    /\ IsPrefix(<<"I","S","B","N",":"," ">>, lines[5])
                    /\ SubSeq(lines[5], Len(lines[5]) - 2, Len(lines[5])) = <<".",".",".">>

C9_Witness ==
    /\ pc = "returned"
    /\ HasDocs(response)
    /\ formatted.s = <<"T","i","t","l","e",":"," ","U","b","i","k","\n","A","u","t","h","o","r","(","s",")",":"," ","A","n","n",","," ","B","o","\n","F","i","r","s","t"," ","P","u","b","l","i","s","h","e","d",":"," ","1","9","6","9","\n","P","u","b","l","i","s","h","e","r",":"," ","A","c","e",","," ","T","o","r","\n","I","S","B","N",":"," ","1","2",".",".",".","\n","\n","T","i","t","l","e",":"," ","D","u","n","e","\n","A","u","t","h","o","r","(","s",")",":"," ","U","n","k","n","o","w","n","\n","F","i","r","s","t"," ","P","u","b","l","i","s","h","e","d",":"," ","U","n","k","n","o","w","n","\n","P","u","b","l","i","s","h","e","r",":"," ","U","n","k","n","o","w","n","\n","I","S","B","N",":"," ","U","n","k",".",".",".">>

---------------------------------------------------------------------------
(* interactive_search: the limit prompt.                                   *)

IsDigit(c) == \E d \in 1..10 : Digits[d] = c
DigitValue(c) == (CHOOSE d \in 1..10 : Digits[d] = c) - 1

\* The digits of an int literal: digits, single underscores between them
IsIntBody(s) ==
    /\ Len(s) > 0
    /\ IsDigit(s[1]) /\ IsDigit(s[Len(s)])
    /\ \A i \in 1..Len(s) : IsDigit(s[i]) \/ s[i] = "_"
    /\ \A i \in 1..(Len(s) - 1) : ~(s[i] = "_" /\ s[i + 1] = "_")

RECURSIVE IntBodyValue(_, _)
IntBodyValue(s, acc) ==
    IF Len(s) = 0 THEN acc
    ELSE IF Head(s) = "_" THEN IntBodyValue(Tail(s), acc)
    ELSE IntBodyValue(Tail(s), 10 * acc + DigitValue(Head(s)))

\* int(text): the value, or ValueError (ok = FALSE)
PyInt(text) ==
    LET s == Strip(text)
        signed == Len(s) > 0 /\ Head(s) \in {"+", "-"}
        body == IF signed THEN Tail(s) ELSE s
    IN  IF IsIntBody(body)
        THEN [ok |-> TRUE,
              n |-> IF signed /\ Head(s) = "-"
                    THEN 0 - IntBodyValue(body, 0) ELSE IntBodyValue(body, 0)]
        ELSE [ok |-> FALSE, n |-> 0]

PyMin(a, b) == IF a < b THEN a ELSE b
PyMax(a, b) == IF a > b THEN a ELSE b

\* the limit with min and max left out
NoClampMutant(text) ==
    IF Len(text) = 0 THEN 3 ELSE IF PyInt(text).ok THEN PyInt(text).n ELSE 3

\* try: limit = min(max(1, int(limit)), 10) if limit else 3
\* except ValueError: limit = 3
ResolveLimit(text) ==
    IF Len(text) = 0 THEN 3
    ELSE IF PyInt(text).ok THEN PyMin(PyMax(1, PyInt(text).n), 10)
    ELSE 3

\* the selector with lower() left out
CaseSensitiveSelectMutant(raw) ==
    IF Strip(raw) = <<"a">> THEN <<"a","u","t","h","o","r">> ELSE <<"t","i","t","l","e">>

\* search_type = input(...).strip().lower()
\* search_type = "author" if search_type == 'a' else "title"
SelectSearchType(raw) ==
    IF Lower(Strip(raw)) = <<"a">> THEN <<"a","u","t","h","o","r">> ELSE <<"t","i","t","l","e">>

---------------------------------------------------------------------------
(* search_books: the GET and what the endpoint may do with it.             *)

\* raise_for_status raising for 4xx only
OnlyClientErrorsMutant(code) == code >= 400 /\ code < 500

\* response.raise_for_status() raises HTTPError for a 4xx or 5xx status
RaisesForStatus(code) == code >= 400 /\ code < 600

\* str(e) of the RequestException caught
ExceptionText(o) ==
    CASE o.kind = "transport" -> <<"c","o","n","n","e","c","t","i","o","n"," ","f","a","i","l","e","d">>
      [] o.kind = "http" -> IntToStr(o.code) \o <<" ","E","r","r","o","r">>
      [] o.kind = "notjson" -> <<"E","x","p","e","c","t","i","n","g"," ","v","a","l","u","e">>

Hobbit ==
    JBook(JStr(<<"T","h","e"," ","H","o","b","b","i","t">>), Authors1, JNum(1937), Pubs1,
          JList(<< JStr(<<"9","7","8","0","2","6","1","1","0","2","2","1","7">>) >>))
Dune == JBook(JStr(<<"D","u","n","e">>), Absent, Absent, Absent, Absent)

\* Bodies of a 2xx response, as response.json() parses them
WellFormedBodies ==
    { JObj(JList(<< >>), 1), JObj(Absent, 1), JObj(Absent, 0),
      JObj(JList(<< Hobbit >>), 1), JObj(JList(<< Hobbit, Dune >>), 1) }

MalformedBodies ==
    { JObj(None, 1),
      JObj(JNum(5), 1),
      JObj(JStr(<<"o","o","p","s">>), 1),
      JObj(JList(<< JStr(<<"x">>) >>), 1),
      JObj(JList(<< JBook(JStr(<<"D","u","n","e">>), None, Absent, Absent, Absent) >>), 1),
      JObj(JList(<< Hobbit, JBook(None, Absent, Absent, Absent, JNum(7)) >>), 1),
      JObj(JList(<< JBook(JStr(<<"D","u","n","e">>), Absent, Absent, JList(<< JNum(1) >>), Absent) >>), 1) }

NetOutcomes ==
    { [kind |-> "transport", code |-> 0, body |-> None],
      [kind |-> "http", code |-> 404, body |-> None],
      [kind |-> "http", code |-> 500, body |-> None],
      [kind |-> "notjson", code |-> 200, body |-> None] }
    \cup { [kind |-> "http", code |-> 200, body |-> b] :
             b \in WellFormedBodies \cup MalformedBodies }

\* The except branch is taken: RequestException from requests.get (transport),
\* from raise_for_status (HTTPError), or from response.json() (requests'
\* JSONDecodeError is a RequestException)
RequestFails(o) ==
    \/ o.kind = "transport"
    \/ o.kind = "notjson"
    \/ (o.kind = "http" /\ RaisesForStatus(o.code))

DIAGNOSTIC == <<"E","r","r","o","r"," ","m","a","k","i","n","g"," ","A","P","I"," ","r","e","q","u","e","s","t",":"," ">>

---------------------------------------------------------------------------
(* Spec: the loop of interactive_search.  The locals of an iteration are   *)
(* all assigned before they are read, so the model clears them where the   *)
(* next iteration starts, and stdout holds what was printed since then.    *)

Banner == << <<"O","p","e","n"," ","L","i","b","r","a","r","y"," ","B","o","o","k"," ","S","e","a","r","c","h">>, <<"E","n","t","e","r"," ","'","q","u","i","t","'"," ","t","o"," ","e","x","i","t","\n">> >>

RECURSIVE Repeat(_, _)
\* c * n
Repeat(c, n) == IF n = 0 THEN <<>> ELSE <<c>> \o Repeat(c, n - 1)

SeparatorWidth == 50

TermInputs ==
    { <<"q","u","i","t">>, <<" ","Q","U","I","T","\t">>, <<"Q","u","i","t">>, <<"t","h","e"," ","h","o","b","b","i","t">>, <<" ","d","u","n","e"," ">>, <<>>, <<"q","u","i","t"," ","n","o","w">> }

TypeInputs == { <<"a">>, <<"A">>, <<" ","a"," ">>, <<"t">>, <<"T">>, <<>>, <<"a","u","t","h","o","r">>, <<"b">> }

LimitAlphabet == {"0", "1", "5", "-", "a", " "}

LimitInputs ==
    SeqsUpTo(LimitAlphabet, MaxLimitLen)
        \cup { <<"a","b","c">>, <<"2","5">>, <<"+","7">>, <<"1","_","0">>, <<" ","5"," ">>, <<"1","0","0">>, <<"3",".","5">>, <<"_","1">> }

Init ==
    /\ ObjectInit
    /\ pc = "prompt_term"
    /\ search_term = <<>>
    /\ search_type = <<>>
    /\ fields = NoFields
    /\ limit = NoLimit
    /\ url = <<>>
    /\ response = None
    /\ formatted = NoFormatted
    /\ stdout = Banner
    /\ last_input = <<>>
    /\ outcome = NoOutcome
    /\ requests = 0
    /\ iter = 0
    /\ exc = "none"

\* lines 65-67: read the search term; quit ends the loop
ReadTerm ==
    /\ pc = "prompt_term"
    /\ \E raw \in TermInputs :
        /\ last_input' = raw
        /\ search_term' = Strip(raw)
        /\ IF Lower(Strip(raw)) = <<"q","u","i","t">>
           THEN pc' = "exited" /\ iter' = iter
           ELSE iter < MaxIter /\ pc' = "prompt_type" /\ iter' = iter + 1
    /\ search_type' = <<>>
    /\ limit' = NoLimit
    /\ url' = <<>>
    /\ response' = None
    /\ formatted' = NoFormatted
    /\ stdout' = <<>>
    /\ outcome' = NoOutcome
    /\ UNCHANGED <<default_fields, default_limit, fields, requests, exc>>

\* lines 69-70: read the field selector
ReadType ==
    /\ pc = "prompt_type"
    /\ \E raw \in TypeInputs :
        /\ last_input' = raw
        /\ search_type' = SelectSearchType(raw)
    /\ pc' = "prompt_limit"
    /\ UNCHANGED <<default_fields, default_limit, search_term, fields, limit,
                   url, response, formatted, stdout, outcome, requests, iter, exc>>

\* lines 72-76: read the result count
ReadLimit ==
    /\ pc = "prompt_limit"
    /\ \E raw \in LimitInputs :
        /\ last_input' = raw
        /\ limit' = Some(ResolveLimit(Strip(raw)))
    /\ pc' = "search"
    /\ UNCHANGED <<default_fields, default_limit, search_term, search_type,
                   fields, url, response, formatted, stdout, outcome, requests,
                   iter, exc>>

\* line 78 and search_books: build the URL, one GET, the parsed body or None
SearchBooks ==
    /\ pc = "search"
    /\ url' = _build_url(search_term, search_type, fields, limit,
                         default_fields, default_limit)
    /\ requests' = requests + 1
    /\ \E o \in NetOutcomes :
        /\ outcome' = o
        /\ IF RequestFails(o)
           THEN /\ stdout' = Append(stdout, DIAGNOSTIC \o ExceptionText(o))
                /\ response' = None
           ELSE /\ stdout' = stdout
                /\ response' = o.body
    /\ pc' = "format"
    /\ UNCHANGED <<default_fields, default_limit, search_term, search_type,
                   fields, limit, formatted, last_input, iter, exc>>

\* line 79: format_search_results returns
FormatResults ==
    /\ pc = "format"
    /\ format_search_results(response).ok
    /\ formatted' = format_search_results(response)
    /\ pc' = "print"
    /\ UNCHANGED <<default_fields, default_limit, search_term, search_type,
                   fields, limit, url, response, stdout, last_input, outcome,
                   requests, iter, exc>>

\* line 79: format_search_results raises; nothing catches it
FormatRaises ==
    /\ pc = "format"
    /\ ~format_search_results(response).ok
    /\ exc' = format_search_results(response).exc
    /\ pc' = "crashed"
    /\ UNCHANGED <<default_fields, default_limit, search_term, search_type,
                   fields, limit, url, response, formatted, stdout, last_input,
                   outcome, requests, iter>>

\* lines 81-83: print the result and the separator
PrintResults ==
    /\ pc = "print"
    /\ stdout' = stdout \o << <<"\n","S","e","a","r","c","h"," ","R","e","s","u","l","t","s",":">>, formatted.s,
                              Repeat("-", SeparatorWidth) \o <<"\n">> >>
    /\ pc' = "prompt_term"
    /\ UNCHANGED <<default_fields, default_limit, search_term, search_type,
                   fields, limit, url, response, formatted, last_input, outcome,
                   requests, iter, exc>>

Next ==
    \/ ReadTerm
    \/ ReadType
    \/ ReadLimit
    \/ SearchBooks
    \/ FormatResults
    \/ FormatRaises
    \/ PrintResults

Spec == Init /\ [][Next]_vars

---------------------------------------------------------------------------
(* Claims about the loop.                                                  *)

RECURSIVE Pow10(_)
Pow10(k) == IF k = 0 THEN 1 ELSE 10 * Pow10(k - 1)

RECURSIVE PositionalValue(_, _)
\* The number a string of digits denotes, digit i weighing 10^(Len - i)
PositionalValue(d, i) ==
    IF i > Len(d) THEN 0
    ELSE DigitValue(d[i]) * Pow10(Len(d) - i) + PositionalValue(d, i + 1)

\* Digits only, after an optional minus sign
IsPlainInt(t) ==
    LET d == IF Len(t) > 0 /\ t[1] = "-" THEN Tail(t) ELSE t
    IN  Len(d) > 0 /\ \A i \in 1..Len(d) : IsDigit(d[i])

PlainValue(t) ==
    IF t[1] = "-" THEN 0 - PositionalValue(Tail(t), 1) ELSE PositionalValue(t, 1)

\* A character no int literal holds
HasForeignChar(t) ==
    \E i \in 1..Len(t) : ~IsDigit(t[i]) /\ t[i] \notin {"+", "-", "_"}

\* C6: whatever is typed at the result-count prompt, the loop goes on to the
\* search with an integer limit in 1..10: 3 for a blank or unparsable input,
\* else the parsed integer clamped into 1..10 ("0" gives 1, "25" gives 10,
\* "abc" gives 3); no input raises or ends the loop.
C6_LimitResolved ==
    [][pc = "prompt_limit" =>
        LET t == Strip(last_input')
        IN  /\ pc' = "search"
            /\ exc' = "none"
            /\ limit'.given
            /\ limit'.v \in 1..10
            /\ (Len(t) = 0 \/ HasForeignChar(t)) => limit'.v = 3
            /\ IsPlainInt(t) =>
                    limit'.v = (IF PlainValue(t) < 1 THEN 1
                                ELSE IF PlainValue(t) > 10 THEN 10
                                ELSE PlainValue(t))
            /\ last_input' = <<"0">> => limit'.v = 1
            /\ last_input' = <<"2","5">> => limit'.v = 10
            /\ last_input' = <<"a","b","c">> => limit'.v = 3
      ]_vars

C6_Witness ==
    /\ pc = "search"
    /\ last_input = <<"2","5">>
    /\ limit = Some(10)

\* The GET of this iteration met a transport failure or a 4xx/5xx status
FailedRequest ==
    \/ outcome.kind = "transport"
    \/ (outcome.kind = "http" /\ outcome.code \in 400..599)

DiagnosticLines == {i \in 1..Len(stdout) : IsPrefix(<<"E","r","r","o","r"," ","m","a","k","i","n","g"," ","A","P","I"," ","r","e","q","u","e","s","t",":"," ">>, stdout[i])}

\* C7: a call of search_books issues exactly one GET; on a transport failure
\* or a 4xx/5xx status nothing is raised, exactly one line prefixed
\* "Error making API request: " is printed and None is returned, which
\* format_search_results renders as "No results found.", as it renders a
\* successful response with zero matches.
C7_FailureIsNoResult ==
    /\ pc = "search" => requests = iter - 1
    /\ outcome.kind # "none" => requests = iter
    /\ FailedRequest =>
        /\ pc \in {"format", "print", "prompt_term"}
        /\ exc = "none"
        /\ response = None
        /\ Cardinality(DiagnosticLines) = 1
        /\ pc \in {"print", "prompt_term"} => formatted = Ok(<<"N","o"," ","r","e","s","u","l","t","s"," ","f","o","u","n","d",".">>)
    /\ (outcome.kind = "http" /\ outcome.code = 200 /\ ~FailedRequest) =>
        Cardinality(DiagnosticLines) = 0
    /\ (outcome.body = JObj(JList(<< >>), 1) /\ pc \in {"print", "prompt_term"})
        => formatted = Ok(<<"N","o"," ","r","e","s","u","l","t","s"," ","f","o","u","n","d",".">>)

C7_Witness ==
    /\ pc = "print"
    /\ outcome.kind = "http"
    /\ outcome.code = 500
    /\ response = None
    /\ stdout = << <<"E","r","r","o","r"," ","m","a","k","i","n","g"," ","A","P","I"," ","r","e","q","u","e","s","t",":"," ","5","0","0"," ","E","r","r","o","r">> >>
    /\ formatted.s = <<"N","o"," ","r","e","s","u","l","t","s"," ","f","o","u","n","d",".">>

\* C8: no error is fatal to the loop: it never ends by an exception, whatever
\* the request's outcome or the response's shape, and it ends only when the
\* search term read, trimmed and case-folded, is "quit", with no request
\* issued in that iteration.
C8_NoErrorIsFatal ==
    /\ pc # "crashed"
    /\ exc = "none"
    /\ pc = "exited" =>
        /\ Lower(Strip(last_input)) = <<"q","u","i","t">>
        /\ outcome = NoOutcome
        /\ requests = iter

StepOrder ==
    { <<"prompt_term", "prompt_type">>, <<"prompt_term", "exited">>,
      <<"prompt_type", "prompt_limit">>, <<"prompt_limit", "search">>,
      <<"search", "format">>, <<"format", "print">>, <<"format", "crashed">>,
      <<"print", "prompt_term">> }

\* What C10 says of a step, but for the selector's reading
OrderedStep ==
    /\ <<pc, pc'>> \in StepOrder
    /\ requests' # requests =>
        /\ pc = "search"
        /\ requests' = requests + 1
        /\ search_type \in {<<"t","i","t","l","e">>, <<"a","u","t","h","o","r">>}
        /\ limit.given
        /\ url' = BASE_URL \o <<"?">> \o search_type \o <<"=">> \o TrimmedPlus(search_term)
                    \o <<"&","f","i","e","l","d","s","=","t","i","t","l","e",",","a","u","t","h","o","r","_","n","a","m","e",",","f","i","r","s","t","_","p","u","b","l","i","s","h","_","y","e","a","r",",","p","u","b","l","i","s","h","e","r",",","i","s","b","n">>
                    \o <<"&","l","i","m","i","t","=">> \o IntToStr(limit.v)
    /\ url' # url /\ pc # "prompt_term" => requests' # requests
    /\ pc = "format" /\ pc' = "print" => formatted' = format_search_results(response)
    /\ stdout' # stdout /\ pc \notin {"prompt_term", "search"} =>
        /\ pc = "print"
        /\ Len(stdout') = Len(stdout) + 3
        /\ stdout'[Len(stdout) + 1] = <<"\n","S","e","a","r","c","h"," ","R","e","s","u","l","t","s",":">>
        /\ stdout'[Len(stdout) + 2] = formatted.s
        /\ stdout'[Len(stdout) + 3] =
              <<"-","-","-","-","-","-","-","-","-","-","-","-","-","-","-","-","-","-","-","-","-","-","-","-","-","-","-","-","-","-","-","-","-","-","-","-","-","-","-","-","-","-","-","-","-","-","-","-","-","-","\n">>
    /\ default_fields' = default_fields
    /\ default_fields = InitDefaultFields
    /\ default_limit' = default_limit

=============================================================================
